---- MODULE Spec2Model ----
(***************************************************************************)
(* Wolf Search Algorithm (NiaPy/algorithms/basic/wsa.py).                  *)
(*                                                                         *)
(* Real numbers are fixed-point integers with Unit steps per 1.0: a value  *)
(* v of the model stands for the float v / Unit.  Products, square roots   *)
(* and the exponential are computed on that grid (Mul, Sqrt, ExpNeg).      *)
(* A parameter value carries its Python type next to its number, because   *)
(* typeParameters tests the type.                                          *)
(***************************************************************************)
EXTENDS Integers, Sequences, FiniteSets

\* ------------------------------------------------------------------ bounds
\* Resolution of the fixed-point grid: Unit steps per 1.0.
Unit == 4
\* Largest population size NP a run is started with.
MaxNP == 2

\* Dimension of the task (examples/run_wsa.py: StoppingTask(D=2, ...)).
D == 2

Dims == 1..D

VARIABLES
  Lower, Upper,            \* task.Lower, task.Upper: per-dimension bounds
  params,                  \* self.NP, self.r, self.s, self.alpha, self.pa
  configured,              \* setParameters has run (the instance is constructed)
  probe, verdict,          \* last value given to the validators, their answers
  Wolves, Evaluations,     \* population and its fitness values
  xb, fxb,                 \* global best and its fitness
  pc,                      \* position inside runIteration; "idle" between calls
  index,                   \* loop variable of `for index, wolf in enumerate(Wolves)`
  r,                       \* the local r of runIteration (line 174)
  wolfTmp,                 \* the local wolfTmp of runIteration (lines 176, 203)
  svTmp,                   \* the local wolfTmp of searchWithinVisual (line 139)
  newWolf,                 \* the local newWolf (lines 197, 209; escape's line 144)
  bestIndex,               \* satisfiedIndexes[bestSatisfiedIndex]; -1 if none
  dim,                     \* loop variable i of escape (line 145), 1-based
  Wolves0, Evaluations0, fxb0,   \* history: values when runIteration was entered
  accepted                 \* history: line of the updateIfBetter call that last
                           \* replaced a slot; 0 again when a wolf's first call
                           \* (line 179) replaces nothing

vars == <<Lower, Upper, params, configured, probe, verdict, Wolves, Evaluations,
          xb, fxb, pc, index, r, wolfTmp, svTmp, newWolf, bestIndex, dim,
          Wolves0, Evaluations0, fxb0, accepted>>

taskVars == <<Lower, Upper>>
confVars == <<params, configured, probe, verdict>>
runVars  == <<Wolves, Evaluations, xb, fxb, pc, index, r, wolfTmp, svTmp, newWolf,
              bestIndex, dim, Wolves0, Evaluations0, fxb0, accepted>>

\* ------------------------------------------------------- fixed-point reals
\* x / y rounded to the nearest grid value, halves away from zero.
Round(x, y) == IF x >= 0 THEN (2 * x + y) \div (2 * y) ELSE -((2 * (-x) + y) \div (2 * y))

\* The product of two grid values.
Mul(a, b) == Round(a * b, Unit)

\* a / 2
Half(a) == Round(a, 2)

RECURSIVE ISqrt(_, _)
ISqrt(n, k) == IF (k + 1) * (k + 1) > n THEN k ELSE ISqrt(n, k + 1)

\* numpy.sqrt on the grid: the largest grid value whose square is <= x.
Sqrt(x) == ISqrt(x * Unit, 0)

\* numpy.exp(-y) for y >= 0 on the grid, as 1 / (1 + y + y^2/2): 1.0 at 0,
\* strictly below 1.0 for y > 0, falling to 0.
ExpNeg(y) == (2 * Unit * Unit * Unit) \div (2 * Unit * Unit + 2 * Unit * y + y * y)

RECURSIVE SumSeq(_)
SumSeq(s) == IF s = <<>> THEN 0 ELSE Head(s) + SumSeq(Tail(s))

\* ------------------------------------------------------------ typed values
\* A Python int n, a Python float of grid value v, and None.
PyInt(n) == [type |-> "int", val |-> n * Unit]

PyFloat(v) == [type |-> "float", val |-> v]

PyNone == [type |-> "none", val |-> 0]

\* ---------------------------------------------------------------- the task
\* task.isFeasible on a vector: every coordinate within its dimension's bounds.
IsFeasible(x) == \A k \in Dims : Lower[k] <= x[k] /\ x[k] <= Upper[k]

\* task.isFeasible on a scalar (escape, line 149): the comparison broadcasts the
\* scalar against the whole Lower and Upper vectors.
IsFeasibleScalar(v) == \A k \in Dims : Lower[k] <= v /\ v <= Upper[k]

\* task.bRange[i] = Upper[i] - Lower[i]
bRange(k) == Upper[k] - Lower[k]

\* task.eval: the Sphere benchmark of examples/run_wsa.py, sum of squares.
Eval(x) == SumSeq([k \in Dims |-> Mul(x[k], x[k])])

\* The tasks a run is given: equal bounds in every dimension; bounds that differ
\* between the dimensions, the second one [0.25, 1] leaving the minimum of the
\* objective outside the box; and a zero-width second dimension.
TaskBounds ==
  { <<[k \in Dims |-> -Unit], [k \in Dims |-> Unit]>>,
    <<[k \in Dims |-> IF k = 1 THEN -Unit ELSE Unit \div 4], [k \in Dims |-> Unit]>>,
    <<[k \in Dims |-> IF k = 1 THEN -Unit ELSE 0],
      [k \in Dims |-> IF k = 1 THEN Unit ELSE 0]>> }

\* ----------------------------------------------------- parameter validation
ParamNames == {"NP", "r", "s", "alpha", "pa"}

\* Algorithm.typeParameters()['NP'] of the base class: a positive int.
AlgorithmTypeParametersNP(x) == x.type = "int" /\ x.val > 0

typeParametersOffByOne(name, x) ==
  CASE name = "NP"    -> AlgorithmTypeParametersNP(x)
    [] name = "r"     -> x.type = "float" /\ x.val >= 0
    [] name = "s"     -> x.type = "float" /\ x.val > 0
    [] name = "alpha" -> x.type = "float" /\ x.val > 0
    [] name = "pa"    -> x.type = "float" /\ 0 <= x.val /\ x.val <= Unit

\* typeParameters()[name](x), lines 73-80.
typeParameters(name, x) ==
  CASE name = "NP"    -> AlgorithmTypeParametersNP(x)
    [] name = "r"     -> x.type = "float" /\ x.val > 0
    [] name = "s"     -> x.type = "float" /\ x.val > 0
    [] name = "alpha" -> x.type = "float" /\ x.val > 0
    [] name = "pa"    -> x.type = "float" /\ 0 <= x.val /\ x.val <= Unit

\* Values handed to the validators and to setParameters.
ProbeValues ==
  {PyInt(n) : n \in -1..2} \cup {PyFloat(v) : v \in (-Unit)..(Unit + 1)} \cup {PyNone}

ArgValues(name) ==
  CASE name = "NP" -> {PyInt(0), PyInt(1), PyInt(2), PyFloat(Unit)}
    [] name = "pa" -> {PyInt(1), PyFloat(0), PyFloat(Unit \div 4), PyFloat(Unit + 1)}
    [] name = "s"  -> {PyFloat(Unit \div 4), PyFloat(0)}
    [] OTHER       -> {PyInt(1), PyFloat(-Unit), PyFloat(0), PyFloat(Unit)}

\* The keyword arguments of the tests (test_wsa.py:40): r=1 and alpha=1 are ints;
\* s=0.2 and pa=0.2 are floats, here the nearest grid value above 0.
TestParams(np) ==
  [NP |-> PyInt(np), r |-> PyInt(1), s |-> PyFloat(Unit \div 4),
   alpha |-> PyInt(1), pa |-> PyFloat(Unit \div 4)]

\* A tester calls one validator table entry per name on a value.
TypeParametersCall ==
  /\ \E x \in ProbeValues :
       /\ probe' = x
       /\ verdict' = [n \in ParamNames |-> typeParameters(n, x)]
  /\ UNCHANGED <<params, configured>>
  /\ UNCHANGED taskVars
  /\ UNCHANGED runVars

\* setParameters(NP, r, s, alpha, pa), lines 82-96: the arguments are stored.
setParameters ==
  /\ pc = "idle"
  /\ \E np \in ArgValues("NP"), pr \in ArgValues("r"), ps \in ArgValues("s"),
        pal \in ArgValues("alpha"), ppa \in ArgValues("pa") :
       params' = [NP |-> np, r |-> pr, s |-> ps, alpha |-> pal, pa |-> ppa]
  /\ configured' = TRUE
  /\ UNCHANGED <<probe, verdict>>
  /\ UNCHANGED taskVars
  /\ UNCHANGED runVars

\* ------------------------------------------------------------ random draws
\* self.randn(): Gaussian draws, on the grid.
Gauss == {-Unit, -(Unit \div 2), 0, Unit \div 2, Unit}

\* self.randn(len(wolf)): one draw per dimension.
GaussVector == [Dims -> Gauss]

\* self.rand(): uniform draws in [0, 1).
Uniform == {0, Unit - 1}

\* ------------------------------------------------- the parameters of a run
NP == params.NP.val \div Unit

Indexes == 0..(NP - 1)

\* ------------------------------------------------------------- pure steps
updateAlways(W, E, cand, idx) ==
  [W |-> [W EXCEPT ![idx] = cand], E |-> [E EXCEPT ![idx] = Eval(cand)], hit |-> TRUE]

\* updateIfBetter, lines 131-135, on population W and fitness E.
updateIfBetter(W, E, cand, idx) ==
  IF Eval(cand) < E[idx]
  THEN [W |-> [W EXCEPT ![idx] = cand], E |-> [E EXCEPT ![idx] = Eval(cand)], hit |-> TRUE]
  ELSE [W |-> W, E |-> E, hit |-> FALSE]

\* Line 139: wolf + self.alpha * self.randn(len(wolf)) * self.r
searchCandidate(wolf, g) ==
  [k \in Dims |-> wolf[k] + Mul(Mul(params.alpha.val, g[k]), params.r.val)]

\* Line 182: sqrt(sum((wolf - Wolves[i]) ** 2))
distance(a, b) == Sqrt(SumSeq([k \in Dims |-> Mul(a[k] - b[k], a[k] - b[k])]))

satisfiedIndexesOfSnapshot(W, i) ==
  {j \in Indexes : 0 < distance(Wolves0[i], Wolves0[j])
                    /\ distance(Wolves0[i], Wolves0[j]) < params.r.val}

\* Line 184: the indexes whose distance from wolf i lies strictly between 0 and
\* self.r, measured in population W.
satisfiedIndexes(W, i) ==
  {j \in Indexes : 0 < distance(W[i], W[j]) /\ distance(W[i], W[j]) < params.r.val}

\* Lines 187-189: argmin over the satisfied fitness values, in index order, so
\* the first of equal minima.
bestSatisfied(S, E) ==
  CHOOSE j \in S : \A m \in S : E[j] < E[m] \/ (E[j] = E[m] /\ j <= m)

\* Lines 192-193: r = sqrt((bestWolf[i] - wolf[i]) ** 2 + r), dimension by
\* dimension, starting from the r it is given.
RECURSIVE accumulateR(_, _, _, _)
accumulateR(r0, wolf, bestWolf, k) ==
  IF k > D THEN r0
  ELSE accumulateR(Sqrt(Mul(bestWolf[k] - wolf[k], bestWolf[k] - wolf[k]) + r0),
                   wolf, bestWolf, k + 1)

\* Line 195: beta1 = 1 * exp(-1 * r ** 2)
beta1(rr) == ExpNeg(Mul(rr, rr))

\* Line 197: wolf * (1 - beta1) + bestWolf * beta1 + self.alpha * self.randn()
attractCandidate(wolf, bestWolf, rr, g) ==
  [k \in Dims |-> Mul(wolf[k], Unit - beta1(rr)) + Mul(bestWolf[k], beta1(rr))
                  + Mul(params.alpha.val, g)]

\* Lines 147-148: wolf[i] + self.alpha * (randn() * (task.bRange[i] / 2 - r))
escapeValue(wolf, k, rr, g) ==
  wolf[k] + Mul(params.alpha.val, Mul(g, Half(bRange(k)) - rr))

escapeAcceptsAll(v) == TRUE

\* Line 149: escape keeps a drawn coordinate when the task calls it feasible.
escapeAccepts(v) == IsFeasibleScalar(v)

\* numpy.argmin(Evaluations), line 212: the first index of the minimum.
argmin(E) == CHOOSE j \in Indexes : \A m \in Indexes : E[j] < E[m] \/ (E[j] = E[m] /\ j <= m)

\* --------------------------------------------------------------- the run
NoVector == <<>>

\* Coordinates the initial population is sampled from: 0.0 and 0.5 where feasible.
InitCoords(k) == {v \in {0, Unit \div 2} : Lower[k] <= v /\ v <= Upper[k]}

\* The instance after construction with the tests' arguments and
\* initPopulation (lines 113-129): NP feasible wolves with their fitness, and the
\* best of them as global best.
Init ==
  /\ \E b \in TaskBounds : Lower = b[1] /\ Upper = b[2]
  /\ \E np \in 1..MaxNP : params = TestParams(np)
  /\ configured = TRUE
  /\ probe = PyNone
  /\ verdict = [n \in ParamNames |-> FALSE]
  /\ Wolves \in [Indexes -> {x \in [Dims -> (-Unit)..Unit] : \A k \in Dims : x[k] \in InitCoords(k)}]
  /\ Evaluations = [i \in Indexes |-> Eval(Wolves[i])]
  /\ xb = Wolves[argmin(Evaluations)]
  /\ fxb = Evaluations[argmin(Evaluations)]
  /\ pc = "idle"
  /\ index = 0
  /\ r = 0
  /\ wolfTmp = NoVector
  /\ svTmp = NoVector
  /\ newWolf = NoVector
  /\ bestIndex = -1
  /\ dim = 0
  /\ Wolves0 = Wolves
  /\ Evaluations0 = Evaluations
  /\ fxb0 = fxb
  /\ accepted = 0

\* Lines 174-176: runIteration is entered with the population and global best of
\* the previous call; r = 0; the first wolf is copied.
runIteration ==
  /\ pc = "idle"
  /\ r' = 0
  /\ index' = 0
  /\ wolfTmp' = Wolves[0]
  /\ pc' = "search1"
  /\ Wolves0' = Wolves
  /\ Evaluations0' = Evaluations
  /\ fxb0' = fxb
  /\ accepted' = 0
  /\ UNCHANGED <<Wolves, Evaluations, xb, fxb, svTmp, newWolf, bestIndex, dim>>
  /\ UNCHANGED taskVars
  /\ UNCHANGED confVars

\* searchWithinVisual (lines 137-141), called at lines 178 and 205: one turn of
\* its loop. The perturbed point stays in the function's own local; nothing is
\* returned and the caller's wolfTmp is left as it was.
searchWithinVisual(here, next) ==
  /\ pc = here
  /\ \E g \in GaussVector :
       LET cand == searchCandidate(wolfTmp, g) IN
         IF IsFeasible(cand)
         THEN svTmp' = cand /\ pc' = next
         ELSE UNCHANGED <<svTmp, pc>>
  /\ UNCHANGED <<Wolves, Evaluations, xb, fxb, index, r, wolfTmp, newWolf, bestIndex,
                 dim, Wolves0, Evaluations0, fxb0, accepted>>
  /\ UNCHANGED taskVars
  /\ UNCHANGED confVars

SearchFirst == searchWithinVisual("search1", "update1")

SearchAgain == searchWithinVisual("search2", "update3")

\* The end of the loop body: the next wolf is copied (line 176), or the pass is over.
nextWolf ==
  IF index + 1 < NP
  THEN /\ index' = index + 1
       /\ wolfTmp' = Wolves'[index + 1]
       /\ pc' = "search1"
  ELSE /\ index' = index
       /\ wolfTmp' = NoVector
       /\ pc' = "best"

\* Line 179: updateIfBetter with the caller's wolfTmp.
UpdateFirst ==
  /\ pc = "update1"
  /\ LET u == updateIfBetter(Wolves, Evaluations, wolfTmp, index) IN
       /\ Wolves' = u.W
       /\ Evaluations' = u.E
       /\ accepted' = IF u.hit THEN 179 ELSE 0
  /\ pc' = "neighbours"
  /\ wolfTmp' = NoVector
  /\ svTmp' = NoVector
  /\ UNCHANGED <<xb, fxb, index, r, newWolf, bestIndex, dim, Wolves0, Evaluations0, fxb0>>
  /\ UNCHANGED taskVars
  /\ UNCHANGED confVars

\* Lines 182-195 and 203: the distances from the wolf (a view of its row of
\* Wolves), the satisfied indexes, the best of them and r; without a satisfied
\* index the wolf is copied for a second visual search.
Neighbours ==
  /\ pc = "neighbours"
  /\ LET S == satisfiedIndexes(Wolves, index) IN
       IF S # {}
       THEN /\ bestIndex' = bestSatisfied(S, Evaluations)
            /\ r' = accumulateR(r, Wolves[index], Wolves[bestSatisfied(S, Evaluations)], 1)
            /\ pc' = "attract"
            /\ wolfTmp' = wolfTmp
       ELSE /\ bestIndex' = -1
            /\ r' = r
            /\ pc' = "search2"
            /\ wolfTmp' = Wolves[index]
  /\ UNCHANGED <<Wolves, Evaluations, xb, fxb, index, svTmp, newWolf, dim,
                 Wolves0, Evaluations0, fxb0, accepted>>
  /\ UNCHANGED taskVars
  /\ UNCHANGED confVars

\* Lines 196-199: one turn of the pack-attraction loop.
Attract ==
  /\ pc = "attract"
  /\ \E g \in Gauss :
       LET cand == attractCandidate(Wolves[index], Wolves[bestIndex], r, g) IN
         IF IsFeasible(cand)
         THEN newWolf' = cand /\ pc' = "update2"
         ELSE UNCHANGED <<newWolf, pc>>
  /\ UNCHANGED <<Wolves, Evaluations, xb, fxb, index, r, wolfTmp, svTmp, bestIndex,
                 dim, Wolves0, Evaluations0, fxb0, accepted>>
  /\ UNCHANGED taskVars
  /\ UNCHANGED confVars

\* Line 201: updateIfBetter with the attracted wolf.
UpdateAttracted ==
  /\ pc = "update2"
  /\ LET u == updateIfBetter(Wolves, Evaluations, newWolf, index) IN
       /\ Wolves' = u.W
       /\ Evaluations' = u.E
       /\ accepted' = IF u.hit THEN 201 ELSE accepted
  /\ pc' = "chance"
  /\ newWolf' = NoVector
  /\ UNCHANGED <<xb, fxb, index, r, wolfTmp, svTmp, bestIndex, dim,
                 Wolves0, Evaluations0, fxb0>>
  /\ UNCHANGED taskVars
  /\ UNCHANGED confVars

\* Line 206: updateIfBetter with the caller's wolfTmp after the second search.
UpdateAgain ==
  /\ pc = "update3"
  /\ LET u == updateIfBetter(Wolves, Evaluations, wolfTmp, index) IN
       /\ Wolves' = u.W
       /\ Evaluations' = u.E
       /\ accepted' = IF u.hit THEN 206 ELSE accepted
  /\ pc' = "chance"
  /\ wolfTmp' = NoVector
  /\ svTmp' = NoVector
  /\ UNCHANGED <<xb, fxb, index, r, newWolf, bestIndex, dim, Wolves0, Evaluations0, fxb0>>
  /\ UNCHANGED taskVars
  /\ UNCHANGED confVars

\* Line 208 when the draw exceeds pa: escape is entered and copies the wolf (line 144).
EnemyAppears ==
  /\ pc = "chance"
  /\ \E u \in Uniform : u > params.pa.val
  /\ pc' = "escape"
  /\ newWolf' = Wolves[index]
  /\ dim' = 1
  /\ UNCHANGED <<Wolves, Evaluations, xb, fxb, index, r, wolfTmp, svTmp, bestIndex,
                 Wolves0, Evaluations0, fxb0, accepted>>
  /\ UNCHANGED taskVars
  /\ UNCHANGED confVars

\* Line 208 when the draw does not exceed pa: on to the next wolf.
NoEnemy ==
  /\ pc = "chance"
  /\ \E u \in Uniform : ~(u > params.pa.val)
  /\ UNCHANGED <<Wolves, Evaluations, xb, fxb, r, svTmp, newWolf, bestIndex, dim,
                 Wolves0, Evaluations0, fxb0, accepted>>
  /\ nextWolf
  /\ UNCHANGED taskVars
  /\ UNCHANGED confVars

\* Lines 145-151: one turn of escape's loop for dimension dim; after the last
\* dimension escape returns newWolf (line 153).
Escape ==
  /\ pc = "escape"
  /\ \E g \in Gauss :
       LET tmpWolf == escapeValue(Wolves[index], dim, r, g) IN
         IF escapeAccepts(tmpWolf)
         THEN /\ newWolf' = [newWolf EXCEPT ![dim] = tmpWolf]
              /\ dim' = IF dim = D THEN 0 ELSE dim + 1
              /\ pc' = IF dim = D THEN "update4" ELSE "escape"
         ELSE UNCHANGED <<newWolf, dim, pc>>
  /\ UNCHANGED <<Wolves, Evaluations, xb, fxb, index, r, wolfTmp, svTmp, bestIndex,
                 Wolves0, Evaluations0, fxb0, accepted>>
  /\ UNCHANGED taskVars
  /\ UNCHANGED confVars

\* Line 210: updateIfBetter with the escaped wolf, then the next wolf.
UpdateEscaped ==
  /\ pc = "update4"
  /\ LET u == updateIfBetter(Wolves, Evaluations, newWolf, index) IN
       /\ Wolves' = u.W
       /\ Evaluations' = u.E
       /\ accepted' = IF u.hit THEN 210 ELSE accepted
  /\ nextWolf
  /\ newWolf' = NoVector
  /\ UNCHANGED <<xb, fxb, r, svTmp, bestIndex, dim, Wolves0, Evaluations0, fxb0>>
  /\ UNCHANGED taskVars
  /\ UNCHANGED confVars

bestEvalIndexOfWorst(E) ==
  CHOOSE j \in Indexes : \A m \in Indexes : E[j] > E[m] \/ (E[j] = E[m] /\ j <= m)

\* Lines 212-214: the index of the best fitness, and whether it replaces fxb.
bestEvalIndex(E) == argmin(E)

replacesBest(E, f) == E[bestEvalIndex(E)] < f

\* Lines 212-216: the global best is replaced by the best wolf if that is
\* strictly better; runIteration returns.
Best ==
  /\ pc = "best"
  /\ IF replacesBest(Evaluations, fxb)
     THEN /\ xb' = Wolves[bestEvalIndex(Evaluations)]
          /\ fxb' = Evaluations[bestEvalIndex(Evaluations)]
     ELSE UNCHANGED <<xb, fxb>>
  /\ pc' = "idle"
  /\ UNCHANGED <<Wolves, Evaluations, index, r, wolfTmp, svTmp, newWolf, bestIndex, dim,
                 Wolves0, Evaluations0, fxb0, accepted>>
  /\ UNCHANGED taskVars
  /\ UNCHANGED confVars

Next ==
  \/ runIteration
  \/ SearchFirst
  \/ UpdateFirst
  \/ Neighbours
  \/ Attract
  \/ UpdateAttracted
  \/ SearchAgain
  \/ UpdateAgain
  \/ EnemyAppears
  \/ NoEnemy
  \/ Escape
  \/ UpdateEscaped
  \/ Best

Spec == Init /\ [][Next]_vars

\* ------------------------------------------------ construction and validators
\* Before Algorithm.__init__ has called setParameters: no parameter is stored and
\* no task or population exists yet.
InitConfig ==
  /\ Lower = [k \in Dims |-> -Unit]
  /\ Upper = [k \in Dims |-> Unit]
  /\ params = [n \in ParamNames |-> PyNone]
  /\ configured = FALSE
  /\ probe = PyNone
  /\ verdict = [n \in ParamNames |-> FALSE]
  /\ Wolves = <<>>
  /\ Evaluations = <<>>
  /\ xb = NoVector
  /\ fxb = 0
  /\ pc = "idle"
  /\ index = 0
  /\ r = 0
  /\ wolfTmp = NoVector
  /\ svTmp = NoVector
  /\ newWolf = NoVector
  /\ bestIndex = -1
  /\ dim = 0
  /\ Wolves0 = <<>>
  /\ Evaluations0 = <<>>
  /\ fxb0 = 0
  /\ accepted = 0

NextConfig ==
  \/ setParameters
  \/ TypeParametersCall

SpecConfig == InitConfig /\ [][NextConfig]_vars

\* ------------------------------------------------------------------ claims
UpdatePcs == {"update1", "update2", "update3", "update4"}

LoopPcs == {"search1", "search2", "attract", "escape"}

MinOf(E) == CHOOSE v \in {E[i] : i \in Indexes} : \A i \in Indexes : v <= E[i]

\* C1: in every step of a pass no fitness value rises; a slot of Wolves or
\* Evaluations changes only in an updateIfBetter call, only the slot of the
\* current wolf, and only to a strictly lower fitness; so every fitness value
\* stays <= its value when runIteration was entered.
C1_PerSlotImprovement ==
  [][\A i \in Indexes :
       /\ Evaluations'[i] <= Evaluations[i]
       /\ (Wolves'[i] # Wolves[i] \/ Evaluations'[i] # Evaluations[i])
            => (pc \in UpdatePcs /\ i = index /\ Evaluations'[i] < Evaluations[i])
       /\ Evaluations'[i] <= Evaluations0'[i]]_vars

\* C1 witness: a pass has ended and left some slot strictly better than it found it.
C1_Witness == pc = "idle" /\ \E i \in Indexes : Evaluations[i] < Evaluations0[i]

\* C2: fxb never rises from one step to the next, and the global best changes
\* only in the step that ends a pass, when the minimum of Evaluations is
\* strictly below fxb, and becomes that minimum.
C2_GlobalBestMonotone ==
  [][/\ fxb' <= fxb
     /\ (fxb' # fxb \/ xb' # xb)
          => /\ pc = "best" /\ pc' = "idle"
             /\ MinOf(Evaluations) < fxb
             /\ fxb' = MinOf(Evaluations)
             /\ Eval(xb') = fxb']_vars

\* C2 witness: a pass has ended with a global best strictly below the one it was given.
C2_Witness == pc = "idle" /\ fxb < fxb0

\* C3: every wolf stored in Wolves is within the bounds of every dimension, in
\* every state of a pass (the initial population being feasible).
C3_Feasibility == \A i \in Indexes : IsFeasible(Wolves[i])

\* C3 witness: on a task whose bounds differ between the dimensions and are not
\* degenerate, a wolf produced by escape has been stored.
C3_Witness ==
  /\ accepted = 210
  /\ Lower[1] # Lower[2]
  /\ \A k \in Dims : Lower[k] < Upper[k]

\* C5: each validator answers TRUE exactly on its documented domain: r, s and
\* alpha on floats > 0, pa on floats in [0, 1], NP on ints > 0.
C5_Validators ==
  /\ verdict.r = (probe.type = "float" /\ probe.val > 0)
  /\ verdict.s = (probe.type = "float" /\ probe.val > 0)
  /\ verdict.alpha = (probe.type = "float" /\ probe.val > 0)
  /\ verdict.pa = (probe.type = "float" /\ probe.val >= 0 /\ probe.val <= Unit)
  /\ verdict.NP = (probe.type = "int" /\ probe.val >= Unit)

\* C5 witness: the validators were asked about the float 0.0: pa accepts it, r,
\* s, alpha and NP reject it.
C5_Witness ==
  /\ probe = PyFloat(0)
  /\ verdict = [n \in ParamNames |-> n = "pa"]

\* C6 as claimed: once setParameters has run, every stored parameter is one its
\* validator accepts.
C6_EagerValidation ==
  configured => \A n \in ParamNames : typeParameters(n, params[n])

\* C7 as claimed: on a task with a zero-width or inverted dimension no
\* rejection-sampling loop is ever entered.
C7_DegenerateBoundsFailFast ==
  (\E k \in Dims : Lower[k] >= Upper[k]) => pc \notin LoopPcs

\* C8 as claimed: when the point perturbed by searchWithinVisual evaluates
\* strictly lower than the wolf's fitness, the updateIfBetter call that follows
\* stores it.
C8_VisualSearchStored ==
  [][(pc \in {"update1", "update3"} /\ Eval(svTmp) < Evaluations[index])
       => (Wolves'[index] = svTmp /\ Evaluations'[index] = Eval(svTmp))]_vars

\* C9 as claimed: when pack attraction starts for a wolf, r is the distance
\* accumulated from 0 between that wolf and its best neighbour.
C9_DistanceFromZero ==
  pc = "attract" => r = accumulateR(0, Wolves[index], Wolves[bestIndex], 1)

\* The satisfied neighbours of wolf i as the claim states them, in the
\* population as it is now.
SatisfiedNow(i) ==
  {j \in Indexes \ {i} :
     LET d == Sqrt(SumSeq([k \in Dims |-> Mul(Wolves[i][k] - Wolves[j][k],
                                                Wolves[i][k] - Wolves[j][k])]))
     IN 0 < d /\ d < params.r.val}

====
